---- MODULE Spec2Model ----
(***************************************************************************)
(* A model of applets/projecter/templates/aiot/main.py: the capture        *)
(* routine main() as a state machine, one action per statement, over a     *)
(* small POSIX-like file system, the camera collaborator and a clock.      *)
(***************************************************************************)
EXTENDS Integers, Sequences, FiniteSets, TLC

(* ------------------------------ bounds --------------------------------- *)
\* Number of times the script is launched in one behaviour.
MaxRuns == 2
\* Longest relative path (in components) the script is launched with.
MaxRel == 4
\* Largest duration of one statement, and largest oversleep of time.sleep.
MaxTick == 1

\* Deepest directory of the file systems the directory-creation step is
\* applied to on its own.
MkDepth == 2

(* --------------------------- program constants ------------------------- *)
\* time.sleep(2)
WarmUp == 2

(* ------------------------------- paths --------------------------------- *)
\* A path string is a record: abs says whether it starts with "/", comps are
\* its components.  A location of the file system is the component sequence
\* of an absolute, normalised path (the root is << >>).
Path(a, c) == [abs |-> a, comps |-> c]

\* The value of a local that has not been assigned yet.
Unset == Path(FALSE, <<"<unset>">>)

Front(s) == SubSeq(s, 1, Len(s) - 1)

\* The script file, and the directory that holds it.
ScriptLoc == <<"a", "b", "main.py">>
ScriptDir == Front(ScriptLoc)
\* Where the picture belongs: <directory containing the script>/capture.jpg.
CaptureLoc == Append(ScriptDir, "capture.jpg")

\* The directories of the machine the script is installed on.
Tree == { <<>>, <<"a">>, <<"a", "b">>, <<"c">> }

\* Byte buffers the camera can deliver as an encoded frame.
Frames == { <<1, 2, 3>>, <<7, 8>> }
\* Content of a capture.jpg left in the directory by something else.
OldBytes == <<4, 5, 6, 9>>
ScriptBytes == <<0>>

IsPrefix(p, q) == Len(p) <= Len(q) /\ SubSeq(q, 1, Len(p)) = p

\* posixpath.normpath on the components: "." is dropped, ".." removes the
\* component before it, and ".." at the root of an absolute path is dropped.
RECURSIVE Norm(_, _, _)
Norm(rest, acc, a) ==
    IF rest = <<>> THEN acc
    ELSE LET c == Head(rest) IN
         IF c = "." THEN Norm(Tail(rest), acc, a)
         ELSE IF c = ".."
              THEN IF acc # <<>> /\ acc[Len(acc)] # ".."
                   THEN Norm(Tail(rest), Front(acc), a)
                   ELSE IF a THEN Norm(Tail(rest), acc, a)
                        ELSE Norm(Tail(rest), Append(acc, ".."), a)
              ELSE Norm(Tail(rest), Append(acc, c), a)

\* os.path.join(a, b)
join(a, b) == IF b.abs THEN b ELSE Path(a.abs, a.comps \o b.comps)

\* Mutant of abspath: the path is made absolute and not normalised.
Mut_abspathNoNorm(p, wd) == IF p.abs THEN p ELSE join(Path(TRUE, wd), p)

\* os.path.abspath(p) in a process whose working directory is wd.
abspath(p, wd) ==
    LET q == IF p.abs THEN p ELSE join(Path(TRUE, wd), p)
    IN  Path(TRUE, Norm(q.comps, <<>>, TRUE))

\* os.path.dirname(p)
dirname(p) == IF p.comps = <<>> THEN p ELSE Path(p.abs, Front(p.comps))

\* How the kernel resolves a path: component by component from the start
\* directory, every intermediate component an existing directory.
Nowhere == <<"<enoent>">>
RECURSIVE Walk(_, _, _, _)
Walk(cur, rest, ds, fs) ==
    IF rest = <<>> THEN cur
    ELSE LET c == Head(rest) IN
         IF cur \notin ds THEN Nowhere
         ELSE IF c = "." THEN Walk(cur, Tail(rest), ds, fs)
         ELSE IF c = ".."
              THEN Walk(IF cur = <<>> THEN cur ELSE Front(cur), Tail(rest), ds, fs)
              ELSE LET nxt == Append(cur, c) IN
                   IF nxt \in ds THEN Walk(nxt, Tail(rest), ds, fs)
                   ELSE IF nxt \in fs /\ Tail(rest) = <<>> THEN nxt
                   ELSE Nowhere

Locate(p, wd, ds, fs) == Walk(IF p.abs THEN <<>> ELSE wd, p.comps, ds, fs)

\* The location a path string denotes for a process in directory wd.
Place(p, wd) == Norm((IF p.abs THEN <<>> ELSE wd) \o p.comps, <<>>, TRUE)

(* ---------------------------- file system ------------------------------ *)
\* mkdir(2): the directory is new, its parent exists and is writable.
mkdirOk(ds, fs, ro, name) ==
    /\ name # <<>>
    /\ name \notin ds
    /\ name \notin fs
    /\ Front(name) \in ds
    /\ Front(name) \notin ro

\* Mutant of makedirs: exist_ok is not set, so the error of the last mkdir is
\* raised also when the directory is there.
RECURSIVE Mut_makedirsNoExistOk(_, _, _, _)
Mut_makedirsNoExistOk(ds, fs, ro, name) ==
    LET up == IF name # <<>> /\ Front(name) \notin ds /\ Front(name) \notin fs
              THEN Mut_makedirsNoExistOk(ds, fs, ro, Front(name))
              ELSE [ok |-> TRUE, dirs |-> ds]
    IN  IF ~up.ok THEN up
        ELSE IF mkdirOk(up.dirs, fs, ro, name)
             THEN [ok |-> TRUE, dirs |-> up.dirs \cup {name}]
             ELSE [ok |-> FALSE, dirs |-> up.dirs]

\* os.makedirs(name, exist_ok=True): the missing ancestors first, then the
\* directory; an error of the last mkdir is swallowed when the directory is
\* there.  ds: the directories, fs: the files, ro: the unwritable directories.
RECURSIVE makedirs(_, _, _, _)
makedirs(ds, fs, ro, name) ==
    LET up == IF name # <<>> /\ Front(name) \notin ds /\ Front(name) \notin fs
              THEN makedirs(ds, fs, ro, Front(name))
              ELSE [ok |-> TRUE, dirs |-> ds]
    IN  IF ~up.ok THEN up
        ELSE IF mkdirOk(up.dirs, fs, ro, name)
             THEN [ok |-> TRUE, dirs |-> up.dirs \cup {name}]
             ELSE [ok |-> name \in up.dirs, dirs |-> up.dirs]

\* open(path, "wb"): the file is created or truncated in a writable directory.
CanWrite(ds, ro, target) ==
    /\ target # <<>>
    /\ target \notin ds
    /\ Front(target) \in ds
    /\ Front(target) \notin ro

\* What target holds, nothing when it is not there.
Content(fl, target) == IF target \in DOMAIN fl THEN fl[target] ELSE <<>>

\* Mutant of WriteFile: the file is opened for appending.
Mut_WriteFileAppends(fl, target, bytes) ==
    [p \in DOMAIN fl \cup {target} |->
        IF p = target THEN Content(fl, target) \o bytes ELSE fl[p]]

\* Mutant of WriteFile: the file is written in place and not truncated.
Mut_WriteFileNoTrunc(fl, target, bytes) ==
    [p \in DOMAIN fl \cup {target} |->
        IF p = target
        THEN bytes \o SubSeq(Content(fl, target), Len(bytes) + 1, Len(Content(fl, target)))
        ELSE fl[p]]

\* The files after bytes were written to target, replacing what it held.
WriteFile(fl, target, bytes) ==
    [p \in DOMAIN fl \cup {target} |-> IF p = target THEN bytes ELSE fl[p]]

\* What a write that failed part-way can leave at target: nothing new, or a
\* truncated file holding a proper prefix of the bytes.
PartialWrites(fl, target, bytes) ==
    {fl} \cup { WriteFile(fl, target, SubSeq(bytes, 1, k)) : k \in 0..(Len(bytes) - 1) }

(* ------------------------------- state --------------------------------- *)
VARIABLES
    dirs,         \* the directories that exist
    files,        \* the files that exist, with their content
    readonly,     \* the directories the process cannot write into
    run,          \* how many times the script was launched
    last,         \* the outcome of the run that finished before this one
    pc,           \* the statement of main() to execute next
    cwd,          \* os.getcwd() of the running process
    __file__,     \* the path the script was loaded from
    save_dir,     \* local of main()
    file_path,    \* local of main()
    picam2,       \* the state of the camera handle
    frame,        \* the buffer the camera delivered in this run
    now,          \* the clock of the running process
    started_at,   \* the clock when picam2.start() returned
    captured_at,  \* the clock when picam2.capture_file() was invoked
    calls,        \* the calls main() made in this run, in order
    out           \* standard output of this run

fsvars == <<dirs, files, readonly>>
locals == <<save_dir, file_path>>
timing == <<started_at, captured_at>>
vars == <<dirs, files, readonly, run, last, pc, cwd, __file__, save_dir,
          file_path, picam2, frame, now, started_at, captured_at, calls, out>>

Call(op, ok) == [op |-> op, ok |-> ok]
Message(p) == [text |-> "Photo saved successfully: ", path |-> p]

Comps == {"..", ".", "a", "b", "main.py"}
RelSeqs == UNION { [1..n -> Comps] : n \in 1..MaxRel }
\* The paths a user can launch the script with.
ArgvPaths == { Path(a, c) : a \in BOOLEAN, c \in RelSeqs }

Terminal == {"done", "failed"}
\* The outcome of a run: whether it printed its message, and the frame it wrote.
Outcome(ok, buf) == [ok |-> ok, frame |-> buf]
NoRun == Outcome(FALSE, <<>>)

Init ==
    /\ dirs = Tree
    /\ files \in { [p \in {ScriptLoc} |-> ScriptBytes],
                   [p \in {ScriptLoc, CaptureLoc} |->
                        IF p = ScriptLoc THEN ScriptBytes ELSE OldBytes] }
    /\ readonly \in { {}, {ScriptDir}, {Front(ScriptDir)} }
    /\ run = 0
    /\ last = NoRun
    /\ pc = "idle"
    /\ cwd = <<>>
    /\ __file__ = Unset
    /\ save_dir = Unset
    /\ file_path = Unset
    /\ picam2 = "none"
    /\ frame = <<>>
    /\ now = 0
    /\ started_at = -1
    /\ captured_at = -1
    /\ calls = <<>>
    /\ out = <<>>

(* ------------------------------ helpers -------------------------------- *)
\* A statement takes some time.
Tick == \E d \in 0..MaxTick : now' = now + d

\* Mutant of Raise: the exception is caught and main() goes on to report.
Mut_RaiseSwallowed(op) ==
    /\ pc' = "L27"
    /\ calls' = Append(calls, Call(op, FALSE))

\* An exception leaves main(): nothing after the failing call is executed.
Raise(op) ==
    /\ pc' = "failed"
    /\ calls' = Append(calls, Call(op, FALSE))

Return(op, next) ==
    /\ pc' = next
    /\ calls' = Append(calls, Call(op, TRUE))

(* ------------------------------ actions -------------------------------- *)
\* if __name__ == "__main__": main()  -- the script is launched from some
\* working directory, by some path that leads to it.
Launch ==
    /\ pc = "idle"
    /\ run < MaxRuns
    /\ \E wd \in dirs, f \in ArgvPaths :
          /\ Locate(f, wd, dirs, DOMAIN files) = ScriptLoc
          /\ cwd' = wd
          /\ __file__' = f
    /\ run' = run + 1
    /\ pc' = "L15"
    /\ UNCHANGED <<fsvars, last, locals, picam2, frame, now, timing, calls, out>>

\* Something else removes the script's directory, or one above it, after the
\* interpreter has loaded the script and before main() creates the directory.
EnvRemoveDir ==
    /\ pc \in {"L15", "L16"}
    /\ \E d \in dirs :
          /\ d # <<>>
          /\ IsPrefix(d, ScriptDir)
          /\ ~IsPrefix(d, cwd)
          /\ dirs' = { x \in dirs : ~IsPrefix(d, x) }
          /\ files' = [p \in { x \in DOMAIN files : ~IsPrefix(d, x) } |-> files[p]]
          /\ readonly' = { x \in readonly : ~IsPrefix(d, x) }
    /\ UNCHANGED <<run, last, pc, cwd, __file__, locals, picam2, frame, now,
                   timing, calls, out>>

\* save_dir = os.path.dirname(os.path.abspath(__file__))
SaveDir ==
    /\ pc = "L15"
    /\ save_dir' = dirname(abspath(__file__, cwd))
    /\ pc' = "L16"
    /\ UNCHANGED <<fsvars, run, last, cwd, __file__, file_path, picam2, frame,
                   now, timing, calls, out>>

\* Mutant of MakeDirs: main() does not create the directory.
Mut_MakeDirsSkipped ==
    /\ pc = "L16"
    /\ Return("makedirs", "L18")
    /\ UNCHANGED <<fsvars, run, last, cwd, __file__, locals, picam2, frame, now,
                   timing, out>>

\* os.makedirs(save_dir, exist_ok=True)
MakeDirs ==
    /\ pc = "L16"
    /\ LET r == makedirs(dirs, DOMAIN files, readonly, Place(save_dir, cwd)) IN
          /\ dirs' = r.dirs
          /\ \/ r.ok /\ Return("makedirs", "L18")
             \/ ~r.ok /\ Raise("makedirs")
    /\ UNCHANGED <<files, readonly, run, last, cwd, __file__, locals, picam2,
                   frame, now, timing, out>>

\* picam2 = Picamera2()
AcquireOk ==
    /\ pc = "L18"
    /\ picam2' = "open"
    /\ Return("Picamera2", "L19")
    /\ UNCHANGED <<fsvars, run, last, cwd, __file__, locals, frame, now, timing, out>>

\* Picamera2() raises: no camera, or the camera is busy.
AcquireFail ==
    /\ pc = "L18"
    /\ picam2' = picam2
    /\ Raise("Picamera2")
    /\ UNCHANGED <<fsvars, run, last, cwd, __file__, locals, frame, now, timing, out>>

Acquire == AcquireOk \/ AcquireFail

\* picam2.configure(picam2.create_still_configuration())
\* Mutant of ConfigureOk: main() goes from configure straight to the capture,
\* without start() and the pause.
Mut_ConfigureSkipsStart ==
    /\ pc = "L19"
    /\ picam2' = "configured"
    /\ Return("configure", "L23")
    /\ UNCHANGED <<fsvars, run, last, cwd, __file__, locals, frame, now, timing, out>>

ConfigureOk ==
    /\ pc = "L19"
    /\ picam2' = "configured"
    /\ Return("configure", "L20")
    /\ UNCHANGED <<fsvars, run, last, cwd, __file__, locals, frame, now, timing, out>>

\* create_still_configuration() or configure() raises.
ConfigureFail ==
    /\ pc = "L19"
    /\ picam2' = picam2
    /\ Raise("configure")
    /\ UNCHANGED <<fsvars, run, last, cwd, __file__, locals, frame, now, timing, out>>

Configure == ConfigureOk \/ ConfigureFail

\* picam2.start(); the clock is first read when it returns, at some time
\* after the launch.
StartOk ==
    /\ pc = "L20"
    /\ Tick
    /\ picam2' = "started"
    /\ started_at' = now'
    /\ Return("start", "L21")
    /\ UNCHANGED <<fsvars, run, last, cwd, __file__, locals, frame, captured_at, out>>

\* Mutant of StartFail: the handle is closed on the way out (try/finally).
Mut_StartFailCloses ==
    /\ pc = "L20"
    /\ Tick
    /\ picam2' = "closed"
    /\ pc' = "failed"
    /\ calls' = calls \o <<Call("start", FALSE), Call("close", TRUE)>>
    /\ UNCHANGED <<fsvars, run, last, cwd, __file__, locals, frame, timing, out>>

\* start() raises.
StartFail ==
    /\ pc = "L20"
    /\ Tick
    /\ picam2' = picam2
    /\ Raise("start")
    /\ UNCHANGED <<fsvars, run, last, cwd, __file__, locals, frame, timing, out>>

Start == StartOk \/ StartFail

\* Mutant of Sleep: the pause is one unit short.
Mut_SleepShort ==
    /\ pc = "L21"
    /\ \E d \in 0..MaxTick : now' = now + (WarmUp - 1) + d
    /\ Return("sleep", "L23")
    /\ UNCHANGED <<fsvars, run, last, cwd, __file__, locals, picam2, frame,
                   timing, out>>

\* time.sleep(2): suspends for at least the given time.
Sleep ==
    /\ pc = "L21"
    /\ \E d \in 0..MaxTick : now' = now + WarmUp + d
    /\ Return("sleep", "L23")
    /\ UNCHANGED <<fsvars, run, last, cwd, __file__, locals, picam2, frame,
                   timing, out>>

\* file_path = os.path.join(save_dir, "capture.jpg")
JoinPath ==
    /\ pc = "L23"
    /\ file_path' = join(save_dir, Path(FALSE, <<"capture.jpg">>))
    /\ pc' = "L24"
    /\ Tick
    /\ UNCHANGED <<fsvars, run, last, cwd, __file__, save_dir, picam2, frame,
                   timing, calls, out>>

\* picam2.capture_file(file_path): one frame is taken and written to the file,
\* synchronously; the call fails when the camera or the write fails.
CaptureOk ==
    /\ pc = "L24"
    /\ captured_at' = now
    /\ \E buf \in Frames :
          LET target == Place(file_path, cwd) IN
          /\ frame' = buf
          /\ CanWrite(dirs, readonly, target)
          /\ files' = WriteFile(files, target, buf)
    /\ Return("capture_file", "L25")
    /\ UNCHANGED <<dirs, readonly, run, last, cwd, __file__, locals, picam2, now,
                   started_at, out>>

\* capture_file() raises: the camera delivers no frame, or the file cannot be
\* written, or the write breaks off.
CaptureFail ==
    /\ pc = "L24"
    /\ captured_at' = now
    /\ \E buf \in Frames :
          LET target == Place(file_path, cwd) IN
          /\ frame' = buf
          /\ files' \in IF CanWrite(dirs, readonly, target)
                        THEN PartialWrites(files, target, buf)
                        ELSE {files}
    /\ Raise("capture_file")
    /\ UNCHANGED <<dirs, readonly, run, last, cwd, __file__, locals, picam2, now,
                   started_at, out>>

CaptureFile == CaptureOk \/ CaptureFail

\* picam2.close()
\* Mutant of CloseOk: main() reports without closing the camera.
Mut_CloseSkipped ==
    /\ pc = "L25"
    /\ pc' = "L27"
    /\ UNCHANGED <<fsvars, run, last, cwd, __file__, locals, picam2, frame, now,
                   timing, calls, out>>

CloseOk ==
    /\ pc = "L25"
    /\ picam2' = "closed"
    /\ Return("close", "L27")
    /\ UNCHANGED <<fsvars, run, last, cwd, __file__, locals, frame, now, timing, out>>

\* close() raises, with the camera released or not.
CloseFail ==
    /\ pc = "L25"
    /\ picam2' \in {picam2, "closed"}
    /\ Raise("close")
    /\ UNCHANGED <<fsvars, run, last, cwd, __file__, locals, frame, now, timing, out>>

Close == CloseOk \/ CloseFail

\* print(f"Photo saved successfully: {file_path}")
Report ==
    /\ pc = "L27"
    /\ out' = Append(out, Message(file_path))
    /\ Return("print", "done")
    /\ UNCHANGED <<fsvars, run, last, cwd, __file__, locals, picam2, frame, now,
                   timing>>

\* The process ends, by the return of main() or by the unhandled exception:
\* its locals, its clock and its output are gone, the file system stays.
Exit ==
    /\ pc \in Terminal
    /\ last' = Outcome(pc = "done", IF pc = "done" THEN frame ELSE <<>>)
    /\ pc' = "idle"
    /\ cwd' = <<>>
    /\ __file__' = Unset
    /\ save_dir' = Unset
    /\ file_path' = Unset
    /\ picam2' = "none"
    /\ frame' = <<>>
    /\ now' = 0
    /\ started_at' = -1
    /\ captured_at' = -1
    /\ calls' = <<>>
    /\ out' = <<>>
    /\ UNCHANGED <<fsvars, run>>

Next ==
    \/ Launch
    \/ EnvRemoveDir
    \/ SaveDir
    \/ MakeDirs
    \/ Acquire
    \/ Configure
    \/ Start
    \/ Sleep
    \/ JoinPath
    \/ CaptureFile
    \/ Close
    \/ Report
    \/ Exit

Spec == Init /\ [][Next]_vars

\* The runs of the script with a writable script directory and a camera whose
\* every operation succeeds; a process that can take a step takes one.
HappyInit == Init /\ readonly = {}

HappyNext ==
    \/ Launch
    \/ EnvRemoveDir
    \/ SaveDir
    \/ MakeDirs
    \/ AcquireOk
    \/ ConfigureOk
    \/ StartOk
    \/ Sleep
    \/ JoinPath
    \/ CaptureOk
    \/ CloseOk
    \/ Report
    \/ Exit

HappySpec == HappyInit /\ [][HappyNext]_vars /\ WF_vars(HappyNext)

(* ------------- the directory-creation step on its own ------------------ *)
\* The step of line 16 applied twice in a row to one path, in any small file
\* system: the directories are the ancestors of some directory, at most one
\* file lies in them, at most one of them is unwritable.
MkNames == {"a", "b"}
MkTree == UNION { [1..n -> MkNames] : n \in 0..MkDepth }
Prefixes(p) == { SubSeq(p, 1, k) : k \in 0..Len(p) }

MkInit ==
    /\ \E p \in MkTree : dirs = Prefixes(p)
    /\ files \in {<<>>} \cup
                 { [x \in {f} |-> OldBytes] :
                     f \in { t \in MkTree \ dirs : Front(t) \in dirs } }
    /\ readonly \in {{}} \cup { {d} : d \in dirs }
    /\ save_dir \in { Path(TRUE, t) : t \in MkTree }
    /\ pc = "mk0"
    /\ run = 0
    /\ last = NoRun
    /\ cwd = <<>>
    /\ __file__ = Unset
    /\ file_path = Unset
    /\ picam2 = "none"
    /\ frame = <<>>
    /\ now = 0
    /\ started_at = -1
    /\ captured_at = -1
    /\ calls = <<>>
    /\ out = <<>>

\* os.makedirs(save_dir, exist_ok=True), once more
MkApply ==
    /\ pc \in {"mk0", "mk1"}
    /\ LET r == makedirs(dirs, DOMAIN files, readonly, Place(save_dir, cwd)) IN
          /\ dirs' = r.dirs
          /\ calls' = Append(calls, Call("makedirs", r.ok))
    /\ pc' = IF pc = "mk0" THEN "mk1" ELSE "mk2"
    /\ UNCHANGED <<files, readonly, run, last, cwd, __file__, locals, picam2,
                   frame, now, timing, out>>

MkNext == MkApply

MkSpec == MkInit /\ [][MkNext]_vars

(* ------------------------- reading the state --------------------------- *)
\* The positions of the calls of op in this run, and of those that returned.
Invoked(op) == { i \in 1..Len(calls) : calls[i].op = op }
Returned(op) == { i \in 1..Len(calls) : calls[i] = Call(op, TRUE) }
Failed == { i \in 1..Len(calls) : ~calls[i].ok }
\* The camera handle is held: acquired and not released.
Held == picam2 \in {"open", "configured", "started"}
\* The statements of main().
MainStep ==
    \/ SaveDir \/ MakeDirs \/ Acquire \/ Configure \/ Start
    \/ Sleep \/ JoinPath \/ CaptureFile \/ Close \/ Report

(* ------------------------------- claims -------------------------------- *)
\* C1: in every run, failing or not, capture_file is invoked only after
\* start was invoked and returned, and the confirmation is printed only
\* after capture_file returned, with the frame in <save_dir>/capture.jpg.
C1_Ordering ==
    /\ \A i \in Invoked("capture_file") : \E j \in Returned("start") : j < i
    /\ (\E i \in Invoked("capture_file") : TRUE) => started_at >= 0
    /\ \A i \in Invoked("print") :
          /\ \E j \in Returned("capture_file") : j < i
          /\ Place(join(save_dir, Path(FALSE, <<"capture.jpg">>)), cwd) \in DOMAIN files
          /\ files[Place(join(save_dir, Path(FALSE, <<"capture.jpg">>)), cwd)] = frame
    /\ out # <<>> => Invoked("print") # {}

\* A run has printed its confirmation.
C1_Witness ==
    /\ out # <<>>
    /\ Returned("start") # {}
    /\ Returned("capture_file") # {}

\* C2: when directory creation, device acquisition, configure, start or
\* capture_file fails, the routine ends at that step: the failed call is the
\* last one of the run, no statement of main() can be executed after it, no
\* call is made twice, and nothing is printed.
C2_FailurePropagation ==
    /\ \A i \in Failed : i = Len(calls) /\ pc = "failed"
    /\ pc = "failed" =>
          /\ Failed # {}
          /\ out = <<>>
          /\ Invoked("print") = {}
          /\ ~ENABLED MainStep
    /\ \A i, j \in 1..Len(calls) : calls[i].op = calls[j].op => i = j

\* capture_file failed after the five calls before it succeeded.
C2_Witness ==
    /\ pc = "failed"
    /\ Len(calls) = 6
    /\ calls[6] = Call("capture_file", FALSE)
    /\ \A i \in 1..5 : calls[i].ok

\* C3: the handle is released only on the success path: close is invoked
\* only right after a capture_file that returned, and a run that acquired the
\* handle and failed in configure, start or capture_file ends with no call of
\* close and the handle held.
C3_ReleaseOnlyOnSuccess ==
    /\ \A i \in Invoked("close") : i > 1 /\ calls[i - 1] = Call("capture_file", TRUE)
    /\ picam2 = "closed" => Returned("capture_file") # {}
    /\ (pc = "failed" /\ Returned("Picamera2") # {}
           /\ calls[Len(calls)].op \in {"configure", "start", "capture_file"}) =>
          /\ Invoked("close") = {}
          /\ Held

\* start failed with the handle acquired and configured.
C3_Witness ==
    /\ pc = "failed"
    /\ calls[Len(calls)] = Call("start", FALSE)
    /\ picam2 = "configured"

\* C4: in a run that printed the confirmation, close was invoked exactly
\* once: after capture_file returned and before the message was printed; the
\* handle is not held when the message is printed nor when the run ends.
C4_ReleasedBeforeReport ==
    /\ (out # <<>> \/ Invoked("print") # {} \/ pc = "done") =>
          /\ Cardinality(Invoked("close")) = 1
          /\ \A c \in Invoked("close") :
                /\ calls[c].ok
                /\ \E k \in Returned("capture_file") : k < c
                /\ \A q \in Invoked("print") : c < q
          /\ ~Held
          /\ picam2 = "closed"
    /\ pc = "L27" => picam2 = "closed"

\* The confirmation is printed and the run is over.
C4_Witness ==
    /\ pc = "done"
    /\ Len(out) = 1
    /\ Invoked("close") # {}

\* What the one run of the end-to-end scenario leaves behind.
C5_Result ==
    /\ Cardinality(Invoked("capture_file")) = 1
    /\ frame \in Frames
    /\ CaptureLoc \in DOMAIN files
    /\ files[CaptureLoc] = frame
    /\ { p \in DOMAIN files : IsPrefix(ScriptDir, p) } \ {ScriptLoc} = {CaptureLoc}
    /\ Len(out) = 1
    /\ out[1] = Message(Path(TRUE, CaptureLoc))

\* C5: with a writable script directory and a camera whose every operation
\* succeeds, a run of main() terminates; it has then invoked capture_file
\* exactly once, capture.jpg is the one file it left in the script directory
\* and holds the buffer the camera delivered, and the one message it printed
\* carries the absolute path of that file.
C5_EndToEnd ==
    /\ [](pc = "done" => C5_Result)
    /\ (pc = "L15") ~> (pc = "done")

\* The first run has ended with the picture written and reported.
C5_Witness ==
    /\ pc = "done"
    /\ run = 1
    /\ files[CaptureLoc] = frame
    /\ Len(out) = 1

\* C6: once capture_file has returned in a run that follows a successful run,
\* the script directory holds a single capture.jpg and its content is exactly
\* the frame of this run: nothing of the frame of the run before is left and
\* no second file was created.
C6_Overwrite ==
    (last.ok /\ Returned("capture_file") # {}) =>
        /\ CaptureLoc \in DOMAIN files
        /\ files[CaptureLoc] = frame
        /\ { p \in DOMAIN files : IsPrefix(ScriptDir, p) } \ {ScriptLoc} = {CaptureLoc}

\* Two successful runs in a row, the second with a shorter frame.
C6_Witness ==
    /\ pc = "done"
    /\ run = 2
    /\ last.ok
    /\ Len(frame) < Len(last.frame)
    /\ files[CaptureLoc] = frame

\* C7: whenever capture_file has been invoked, at least the warm-up constant
\* has passed on the clock since start returned.
C7_WarmUpDelay ==
    /\ captured_at >= 0 => (started_at >= 0 /\ captured_at - started_at >= WarmUp)
    /\ Invoked("capture_file") # {} => captured_at >= 0
    /\ pc \in {"L23", "L24"} => (started_at >= 0 /\ now - started_at >= WarmUp)

\* capture_file was invoked exactly the warm-up constant after start.
C7_Witness ==
    /\ Invoked("capture_file") # {}
    /\ captured_at - started_at = WarmUp

\* C8: whenever capture_file is about to be or has been invoked, and from the
\* moment the camera handle is acquired, the save directory exists and
\* makedirs was the first call of the run and returned.
C8_DirectoryExists ==
    (pc \in {"L18", "L19", "L20", "L21", "L23", "L24", "L25", "L27", "done"}
        \/ picam2 # "none" \/ Invoked("Picamera2") # {} \/ Invoked("capture_file") # {}) =>
        /\ Place(save_dir, cwd) \in dirs
        /\ ScriptDir \in dirs
        /\ calls # <<>>
        /\ calls[1] = Call("makedirs", TRUE)

\* capture_file returned in a directory that main() had to create again.
C8_Witness ==
    /\ pc = "L25"
    /\ ScriptLoc \notin DOMAIN files
    /\ ScriptDir \in dirs

\* C9: whatever the working directory and the path the script was launched
\* with, the save directory is the directory containing the script, and the
\* path passed to capture_file and the path printed are
\* <directory containing the script>/capture.jpg.
C9_DeterministicPath ==
    /\ save_dir # Unset => save_dir = Path(TRUE, ScriptDir)
    /\ file_path # Unset => file_path = Path(TRUE, CaptureLoc)
    /\ Invoked("capture_file") # {} => file_path = Path(TRUE, CaptureLoc)
    /\ \A i \in 1..Len(out) : out[i].path = Path(TRUE, CaptureLoc)

\* A run launched from another directory by a relative path through ".."
\* has printed its confirmation.
C9_Witness ==
    /\ pc = "done"
    /\ cwd # ScriptDir
    /\ ~__file__.abs
    /\ \E i \in 1..Len(__file__.comps) : __file__.comps[i] = ".."
    /\ out # <<>>

\* C10 as stated: the directory-creation step applied twice in a row to one
\* path never fails, whether or not the directory was there, and leaves the
\* directory present.
C10_NeverFails ==
    pc = "mk2" =>
        /\ calls[1].ok
        /\ calls[2].ok
        /\ Place(save_dir, cwd) \in dirs

\* C10, amended: the step never fails on a directory that is there, and when
\* its first application does not fail, the second one does not fail either
\* and leaves the file system as the first left it, the directory present.
C10_Idempotent ==
    [][ /\ (pc \in {"mk0", "mk1"} /\ Place(save_dir, cwd) \in dirs) =>
              (calls'[Len(calls')].ok /\ dirs' = dirs)
        /\ (pc = "mk1" /\ calls[1].ok) =>
              /\ calls'[2].ok
              /\ dirs' = dirs
              /\ files' = files
              /\ readonly' = readonly
              /\ Place(save_dir, cwd) \in dirs' ]_vars

\* Both applications succeeded and the first one made directories: the
\* directories no longer lie on one branch.
C10_Witness ==
    /\ pc = "mk2"
    /\ calls[1].ok
    /\ calls[2].ok
    /\ \E x \in dirs, y \in dirs : ~IsPrefix(x, y) /\ ~IsPrefix(y, x)

====
